---- MODULE Spec2Model ----
(***************************************************************************)
(* Model of the wireguard-go data-plane transport layer:                   *)
(*   - the device bind coordinator of conn.go (BindUpdate, BindSetMark,    *)
(*     BindClose, unsafeCloseBind) under its two-level lock;               *)
(*   - the DragonFly TUN handle of tun/tun_dragonfly.go (CreateTUN,        *)
(*     CreateTUNFromFile, routineRouteListener, Close).                    *)
(* The two subsystems share no state; each has its own specification.      *)
(***************************************************************************)
EXTENDS Integers, Sequences, FiniteSets, TLC

(***************************************************************************)
(* Bounds of the model.                                                    *)
(***************************************************************************)
NThreads == 2
MaxPeers == 2
MaxMark == 1
MaxPort == 1
MaxEvents == 4
MaxMTU == 1
MaxClose == 2
MaxOffset == 5
MaxPayload == 2

Threads == 1..NThreads
Peers == 1..MaxPeers
Marks == 0..MaxMark
Ports == 1..MaxPort

VARIABLES
    \* ---- conn.go: Device.net (NetworkState), Device.peers, Device.isUp
    bind,        \* device.net.bind: NoBind (nil) or a live Bind
    port,        \* device.net.port
    fwmark,      \* device.net.fwmark
    isUp,        \* device.isUp
    netMutex,    \* device.net.mutex: 0 when free, else the holding thread
    peersMutex,  \* device.peers.mutex: 0 when free, else the holding thread
    peerMutex,   \* peer.mutex of every peer: 0 when free, else the holder
    keyMap,      \* device.peers.keyMap: the set of peers
    endpoint,    \* peer.endpoint != nil, per peer
    pc,          \* position of every caller thread inside a bind operation
    arg,         \* the mark argument of a thread's BindSetMark call
    err,         \* the error a thread's call is about to return (TRUE = error)
    \* ---- history of the call that holds the locks
    cleared,     \* ClearSrc calls per peer made by the running BindUpdate
    upRead,      \* what the running BindUpdate read from device.isUp
    created,     \* the running BindUpdate called CreateBind
    deferred,    \* the peers whose peer.mutex.Unlock() the running BindUpdate
                 \* has deferred, in the order of the defer statements
    markCalls,   \* Bind.SetMark calls made by the running BindSetMark
    repeat,      \* the running BindSetMark has the mark of the previous one
    prevMark,    \* mark of the most recent BindSetMark (-1: none yet)
    \* ---- what became of the binds that CreateBind returned
    src,         \* per peer, the cached source of its endpoint: "empty",
                 \* "fresh" (recorded on the active bind), "stale" (recorded
                 \* on a bind that has been closed since)
    routines,    \* receive routines started against device.net.bind, per
                 \* IP version
    unclosed     \* number of created binds that Bind.Close was not called on

bindLife == <<src, routines, unclosed>>

bindVars == <<bind, port, fwmark, isUp, netMutex, peersMutex, peerMutex,
              keyMap, endpoint, pc, arg, err, cleared, upRead, created,
              deferred, markCalls, repeat, prevMark, bindLife>>

VARIABLES
    \* ---- tun_dragonfly.go: nativeTun and the task of CreateTUN
    phase,       \* "new", "starting" (monitor started), "closing" (setMTU
                 \* failed, CreateTUNFromFile is inside tun.Close), "live",
                 \* "failed"
    fd,          \* the device descriptor: "none", "open", "closed"
    name,        \* tun.name
    origName,    \* tun.origName
    nameCall,    \* the answer of tunName that a running Name() is about to
                 \* store in tun.name (<<>> when no Name is at that point)
    routeSocket, \* tun.routeSocket and its descriptor: "none", "open",
                 \* "shutdown" (unix.Shutdown was called), "closed" (unix.Close
                 \* was called, the field still holds the number), "unset"
                 \* (the field is -1)
    events,      \* tun.events: the buffered events not yet consumed
    eventsClosed,\* tun.events has been closed
    errSlot,     \* the errors held by tun.errors, oldest first
    panicked,    \* the run-time panics raised so far, in order
    \* ---- routineRouteListener
    mpc,         \* "off", "read", "updown", "mtu", "fail" (about to hand
                 \* its error over), "return" (returning, the deferred close
                 \* is due), "unwind" (panicking, the deferred close is due),
                 \* "done"
    merr,        \* the error in the monitor's hand ("none" when none)
    statusUp,    \* local statusUp
    statusMTU,   \* local statusMTU
    ifUp,        \* (iface.Flags & net.FlagUp) != 0 of the notification in hand
    ifMTU,       \* iface.MTU of the notification in hand
    \* ---- history
    gUp,         \* the up flag of the last matching notification (FALSE: none)
    gMTU,        \* the MTU of the last matching notification (0: none)
    seenUp,      \* the observed up flags, consecutive repetitions left out
    want,        \* the events due for the matching notifications so far
    emitted,     \* every event sent on tun.events, in order
    createRet,   \* what CreateTUN returned: "none", "ok", "err"
    createFail,  \* the step of CreateTUN that failed ("none" when none did)
    nClose,      \* number of Close calls made so far
    cpc,         \* where each Close call is: "idle" (not made), "fd",
                 \* "cancel", "ack" (inside Cancel, waiting for the reader),
                 \* "route", "rclose", "store", "done"
    closeIn,     \* the locals of each Close call: whether it found the name
                 \* changed, which of its steps failed, its err4
    closeTrace,  \* the teardown steps each Close call attempted, in order
    closeRet,    \* what each Close call returned ("none" before it returns)
    \* ---- rwcancel.RWCancel and the task that calls Read
    cancelled,   \* tun.rwcancel.Cancel() has been called
    rpc,         \* "idle", "start" (first doRead), "retry" (a later doRead),
                 \* "fdread" (doRead took the default branch and is inside
                 \* tun.fd.Read on the open descriptor), "fdfail" (the same
                 \* on a descriptor already closed), "ready" (inside
                 \* rwcancel.ReadyRead)
    readRet,     \* what the last Read returned ("none" before any return)
    didRead,     \* the running (or last) Read has called tun.fd.Read
    slotReturns, \* number of Read calls that returned the monitor's error
    atClose      \* the running Read was inside tun.fd.Read or ReadyRead when
                 \* a Close was called

tunState == <<phase, fd, name, origName, nameCall, routeSocket>>
chans == <<events, eventsClosed, errSlot>>
monState == <<mpc, merr, statusUp, statusMTU, ifUp, ifMTU>>
monHist == <<gUp, gMTU, seenUp, want, emitted>>
createHist == <<createRet, createFail>>
closeHist == <<nClose, cpc, closeIn, closeTrace, closeRet>>

readVars == <<rpc, readRet, didRead, slotReturns, atClose>>

tunVars == <<tunState, chans, panicked, monState, monHist, createHist,
             closeHist, cancelled, readVars>>

VARIABLES
    \* ---- nativeTun.Write applied to one buffer
    winput,      \* the caller's buffer when Write is called
    wbuff,       \* the caller's buffer, a sequence of bytes
    woffset,     \* the header offset
    wpc,         \* "idle", "done"
    written      \* the bytes handed to tun.fd.Write

writeVars == <<winput, wbuff, woffset, wpc, written>>

VARIABLES
    \* ---- the device-node probing of CreateTUN
    free,        \* the numbers N whose /dev/tunN opens
    generic,     \* /dev/tun opens
    probeI,      \* the loop variable i
    tunfile,     \* the local tunfile: NilFile, Numbered(N) or GenericFile
    tries,       \* the numbers N of the /dev/tunN paths tried so far, in order
    ppc          \* "idle", "loop", "after" (the loop is left), "opened",
                 \* "error"

probeVars == <<free, generic, probeI, tunfile, tries, ppc>>

pureVars == <<writeVars, probeVars>>

vars == <<bindVars, tunVars, pureVars>>

(***************************************************************************)
(* conn.go: the Bind held in device.net.bind.  A Bind carries the mark     *)
(* last applied to its sockets by Bind.SetMark (0 on a fresh bind).        *)
(***************************************************************************)
NoBind == [nil |-> TRUE, mark |-> 0]
Bind(m) == [nil |-> FALSE, mark |-> m]

\* Networking.CreateBind(port): the port actually bound; port 0 asks for an
\* ephemeral port, any other port is bound as requested.
CreateBindPorts(p) == IF p = 0 THEN Ports ELSE {p}

\* unsafeCloseBind: Bind.Close can fail only when there is a bind to close.
CloseOutcomes(b) == IF b.nil THEN {FALSE} ELSE BOOLEAN

ZeroCleared == [p \in Peers |-> 0]

NoRoutines == [v4 |-> 0, v6 |-> 0]

\* Bind.Close was called on the bind b (if any): the sources cached on it
\* are sources of a closed bind, its receive routines are no routines of
\* device.net.bind any more
AfterClose(b) ==
    IF b.nil
    THEN UNCHANGED bindLife
    ELSE /\ src' = [p \in Peers |-> IF src[p] = "fresh" THEN "stale"
                                     ELSE src[p]]
         /\ routines' = NoRoutines
         /\ unclosed' = unclosed - 1

InitBind ==
    /\ bind = NoBind
    /\ port = 0
    /\ fwmark = 0
    /\ isUp = FALSE
    /\ netMutex = 0
    /\ peersMutex = 0
    /\ peerMutex = [p \in Peers |-> 0]
    /\ \E n \in 0..MaxPeers : keyMap = 1..n
    /\ endpoint \in [Peers -> BOOLEAN]
    /\ \A p \in Peers : p \notin keyMap => ~endpoint[p]
    /\ pc = [t \in Threads |-> "idle"]
    /\ arg = [t \in Threads |-> 0]
    /\ err = [t \in Threads |-> FALSE]
    /\ cleared = ZeroCleared
    /\ upRead = "none"
    /\ created = FALSE
    /\ deferred = <<>>
    /\ markCalls = 0
    /\ repeat = FALSE
    /\ prevMark = -1
    /\ src = [p \in Peers |-> "empty"]
    /\ routines = NoRoutines
    /\ unclosed = 0

netState == <<bind, port, fwmark>>
locks == <<netMutex, peersMutex, peerMutex>>
peerSet == <<keyMap, endpoint>>
buHist == <<cleared, upRead, created, deferred>>
smHist == <<markCalls, repeat, prevMark>>

Goto(t, l) == pc' = [pc EXCEPT ![t] = l]

(***************************************************************************)
(* Device.isUp is an atomic flag set by the device's up/down path.         *)
(***************************************************************************)
SetUp ==
    /\ isUp' = ~isUp
    /\ UNCHANGED <<tunVars, pureVars>>
    /\ UNCHANGED bindLife
    /\ UNCHANGED <<netState, locks, peerSet, pc, arg, err, buHist, smHist>>

(***************************************************************************)
(* Device.BindUpdate, conn.go:101-158                                      *)
(***************************************************************************)
Call_BindUpdate(t) ==
    /\ pc[t] = "idle"
    /\ Goto(t, "bu_lock_net")
    /\ UNCHANGED <<tunVars, pureVars>>
    /\ UNCHANGED bindLife
    /\ UNCHANGED <<netState, isUp, locks, peerSet, arg, err, buHist, smHist>>

\* device.net.mutex.Lock()
BU_LockNet(t) ==
    /\ pc[t] = "bu_lock_net"
    /\ netMutex = 0
    /\ netMutex' = t
    /\ Goto(t, "bu_lock_peers")
    /\ UNCHANGED <<tunVars, pureVars>>
    /\ UNCHANGED bindLife
    /\ UNCHANGED <<netState, isUp, peersMutex, peerMutex, peerSet, arg, err,
                   buHist, smHist>>

\* device.peers.mutex.Lock()
BU_LockPeers(t) ==
    /\ pc[t] = "bu_lock_peers"
    /\ peersMutex = 0
    /\ peersMutex' = t
    /\ Goto(t, "bu_close")
    /\ UNCHANGED <<tunVars, pureVars>>
    /\ UNCHANGED bindLife
    /\ UNCHANGED <<netState, isUp, netMutex, peerMutex, peerSet, arg, err,
                   buHist, smHist>>

\* unsafeCloseBind(device): the bind is nulled whether or not Close failed
BU_Close(t) ==
    /\ pc[t] = "bu_close"
    /\ \E closeErr \in CloseOutcomes(bind) :
          /\ bind' = NoBind
          /\ err' = [err EXCEPT ![t] = closeErr]
          /\ Goto(t, IF closeErr THEN "bu_unlock_peers" ELSE "bu_open")
    /\ AfterClose(bind)
    /\ UNCHANGED <<tunVars, pureVars>>
    /\ UNCHANGED <<port, fwmark, isUp, locks, peerSet, arg, buHist, smHist>>

\* if device.isUp.Get() { CreateBind; SetMark when fwmark != 0 }
BU_Open(t) ==
    /\ pc[t] = "bu_open"
    /\ IF ~isUp
       THEN /\ upRead' = "down"
            /\ Goto(t, "bu_unlock_peers")
            /\ UNCHANGED <<bind, port, err, created, unclosed>>
       ELSE /\ upRead' = "up"
            /\ created' = TRUE
            /\ \/ \* CreateBind fails
                  /\ bind' = NoBind
                  /\ port' = 0
                  /\ err' = [err EXCEPT ![t] = TRUE]
                  /\ Goto(t, "bu_unlock_peers")
                  /\ UNCHANGED unclosed
               \/ \* CreateBind succeeds, the mark (if any) is applied
                  /\ \E p \in CreateBindPorts(port) : port' = p
                  /\ bind' = Bind(fwmark)
                  /\ unclosed' = unclosed + 1
                  /\ Goto(t, "bu_peers")
                  /\ UNCHANGED err
               \/ \* CreateBind succeeds, Bind.SetMark fails
                  /\ fwmark # 0
                  /\ \E p \in CreateBindPorts(port) : port' = p
                  /\ bind' = Bind(0)
                  /\ unclosed' = unclosed + 1
                  /\ err' = [err EXCEPT ![t] = TRUE]
                  /\ Goto(t, "bu_unlock_peers")
    /\ UNCHANGED <<src, routines>>
    /\ UNCHANGED <<tunVars, pureVars>>
    /\ UNCHANGED <<fwmark, isUp, locks, peerSet, arg, cleared, deferred,
                   smHist>>

\* one iteration of: for _, peer := range device.peers.keyMap
\* (peer.mutex.Lock(); defer peer.mutex.Unlock(); ClearSrc)
BU_ClearPeer(t, p) ==
    /\ pc[t] = "bu_peers"
    /\ p \in keyMap
    /\ peerMutex[p] = 0
    /\ peerMutex' = [peerMutex EXCEPT ![p] = t]
    /\ deferred' = Append(deferred, p)
    /\ cleared' = IF endpoint[p]
                  THEN [cleared EXCEPT ![p] = cleared[p] + 1]
                  ELSE cleared
    /\ src' = IF endpoint[p] THEN [src EXCEPT ![p] = "empty"] ELSE src
    /\ UNCHANGED <<routines, unclosed>>
    /\ UNCHANGED <<tunVars, pureVars>>
    /\ UNCHANGED <<netState, isUp, netMutex, peersMutex, peerSet, pc, arg,
                   err, upRead, created, smHist>>

\* the range loop is over: start the receive routines, return nil
Mut_BU_Start(t) ==
    /\ pc[t] = "bu_peers"
    /\ keyMap # {} => \E p \in keyMap : peerMutex[p] = t
    /\ routines' = [v4 |-> routines.v4 + 1, v6 |-> routines.v6 + 1]
    /\ UNCHANGED <<src, unclosed>>
    /\ Goto(t, "bu_unlock_peers")
    /\ UNCHANGED <<tunVars, pureVars>>
    /\ UNCHANGED <<netState, isUp, locks, peerSet, arg, err, buHist, smHist>>

BU_Start(t) ==
    /\ pc[t] = "bu_peers"
    /\ \A p \in keyMap : peerMutex[p] = t
    /\ routines' = [v4 |-> routines.v4 + 1, v6 |-> routines.v6 + 1]
    /\ UNCHANGED <<src, unclosed>>
    /\ Goto(t, "bu_unlock_peers")
    /\ UNCHANGED <<tunVars, pureVars>>
    /\ UNCHANGED <<netState, isUp, locks, peerSet, arg, err, buHist, smHist>>

\* deferred calls run last in, first out: peer.mutex.Unlock() of the peer
\* visited last
BU_UnlockPeer(t) ==
    /\ pc[t] = "bu_unlock_peers"
    /\ deferred # <<>>
    /\ peerMutex' = [peerMutex EXCEPT ![deferred[Len(deferred)]] = 0]
    /\ deferred' = SubSeq(deferred, 1, Len(deferred) - 1)
    /\ UNCHANGED <<tunVars, pureVars>>
    /\ UNCHANGED bindLife
    /\ UNCHANGED <<netState, isUp, netMutex, peersMutex, peerSet, pc, arg, err,
                   cleared, upRead, created, smHist>>

\* deferred, once every peer lock is released: device.peers.mutex.Unlock()
Mut_BU_UnlockPeers(t) ==
    /\ pc[t] = "bu_unlock_peers"
    /\ deferred = <<>>
    /\ IF err[t] THEN UNCHANGED peersMutex ELSE peersMutex' = 0
    /\ cleared' = ZeroCleared
    /\ upRead' = "none"
    /\ created' = FALSE
    /\ Goto(t, "bu_unlock_net")
    /\ UNCHANGED <<tunVars, pureVars>>
    /\ UNCHANGED bindLife
    /\ UNCHANGED <<netState, isUp, netMutex, peerMutex, peerSet, arg, err,
                   deferred, smHist>>

BU_UnlockPeers(t) ==
    /\ pc[t] = "bu_unlock_peers"
    /\ deferred = <<>>
    /\ peersMutex' = 0
    /\ cleared' = ZeroCleared
    /\ upRead' = "none"
    /\ created' = FALSE
    /\ Goto(t, "bu_unlock_net")
    /\ UNCHANGED <<tunVars, pureVars>>
    /\ UNCHANGED bindLife
    /\ UNCHANGED <<netState, isUp, netMutex, peerMutex, peerSet, arg, err,
                   deferred, smHist>>

\* deferred: device.net.mutex.Unlock(); the call returns err
BU_UnlockNet(t) ==
    /\ pc[t] = "bu_unlock_net"
    /\ netMutex' = 0
    /\ err' = [err EXCEPT ![t] = FALSE]
    /\ Goto(t, "idle")
    /\ UNCHANGED <<tunVars, pureVars>>
    /\ UNCHANGED bindLife
    /\ UNCHANGED <<netState, isUp, peersMutex, peerMutex, peerSet, arg,
                   buHist, smHist>>

(***************************************************************************)
(* Device.BindSetMark, conn.go:75-99                                       *)
(***************************************************************************)
Call_BindSetMark(t, m) ==
    /\ pc[t] = "idle"
    /\ arg' = [arg EXCEPT ![t] = m]
    /\ Goto(t, "sm_lock_net")
    /\ UNCHANGED <<tunVars, pureVars>>
    /\ UNCHANGED bindLife
    /\ UNCHANGED <<netState, isUp, locks, peerSet, err, buHist, smHist>>

SM_LockNet(t) ==
    /\ pc[t] = "sm_lock_net"
    /\ netMutex = 0
    /\ netMutex' = t
    /\ Goto(t, "sm_lock_peers")
    /\ UNCHANGED <<tunVars, pureVars>>
    /\ UNCHANGED bindLife
    /\ UNCHANGED <<netState, isUp, peersMutex, peerMutex, peerSet, arg, err,
                   buHist, smHist>>

SM_LockPeers(t) ==
    /\ pc[t] = "sm_lock_peers"
    /\ peersMutex = 0
    /\ peersMutex' = t
    /\ Goto(t, "sm_body")
    /\ UNCHANGED <<tunVars, pureVars>>
    /\ UNCHANGED bindLife
    /\ UNCHANGED <<netState, isUp, netMutex, peerMutex, peerSet, arg, err,
                   buHist, smHist>>

\* "check if modified": device.net.fwmark == mark
MarkUnmodified(cur, m) == cur = m

\* the body of BindSetMark under both locks
Mut_SM_Body(t) ==
    /\ pc[t] = "sm_body"
    /\ repeat' = (prevMark = arg[t])
    /\ prevMark' = arg[t]
    /\ fwmark' = arg[t]
    /\ IF isUp /\ ~bind.nil
       THEN /\ markCalls' = 1
            /\ \/ /\ bind' = Bind(arg[t])
                  /\ UNCHANGED err
               \/ /\ err' = [err EXCEPT ![t] = TRUE]
                  /\ UNCHANGED bind
       ELSE /\ markCalls' = 0
            /\ UNCHANGED <<bind, err>>
    /\ Goto(t, "sm_unlock_peers")
    /\ UNCHANGED <<tunVars, pureVars>>
    /\ UNCHANGED bindLife
    /\ UNCHANGED <<port, isUp, locks, peerSet, arg, buHist>>

SM_Body(t) ==
    /\ pc[t] = "sm_body"
    /\ repeat' = (prevMark = arg[t])
    /\ prevMark' = arg[t]
    /\ IF MarkUnmodified(fwmark, arg[t])
       THEN /\ markCalls' = 0
            /\ UNCHANGED <<bind, fwmark, err>>
       ELSE /\ fwmark' = arg[t]
            /\ IF isUp /\ ~bind.nil
               THEN /\ markCalls' = 1
                    /\ \/ /\ bind' = Bind(arg[t])
                          /\ UNCHANGED err
                       \/ /\ err' = [err EXCEPT ![t] = TRUE]
                          /\ UNCHANGED bind
               ELSE /\ markCalls' = 0
                    /\ UNCHANGED <<bind, err>>
    /\ Goto(t, "sm_unlock_peers")
    /\ UNCHANGED <<tunVars, pureVars>>
    /\ UNCHANGED bindLife
    /\ UNCHANGED <<port, isUp, locks, peerSet, arg, buHist>>

SM_UnlockPeers(t) ==
    /\ pc[t] = "sm_unlock_peers"
    /\ peersMutex' = 0
    /\ markCalls' = 0
    /\ repeat' = FALSE
    /\ Goto(t, "sm_unlock_net")
    /\ UNCHANGED <<tunVars, pureVars>>
    /\ UNCHANGED bindLife
    /\ UNCHANGED <<netState, isUp, netMutex, peerMutex, peerSet, arg, err,
                   buHist, prevMark>>

SM_UnlockNet(t) ==
    /\ pc[t] = "sm_unlock_net"
    /\ netMutex' = 0
    /\ err' = [err EXCEPT ![t] = FALSE]
    /\ arg' = [arg EXCEPT ![t] = 0]
    /\ Goto(t, "idle")
    /\ UNCHANGED <<tunVars, pureVars>>
    /\ UNCHANGED bindLife
    /\ UNCHANGED <<netState, isUp, peersMutex, peerMutex, peerSet, buHist,
                   smHist>>

(***************************************************************************)
(* Device.BindClose, conn.go:160-165                                       *)
(***************************************************************************)
Call_BindClose(t) ==
    /\ pc[t] = "idle"
    /\ Goto(t, "bc_lock_net")
    /\ UNCHANGED <<tunVars, pureVars>>
    /\ UNCHANGED bindLife
    /\ UNCHANGED <<netState, isUp, locks, peerSet, arg, err, buHist, smHist>>

BC_LockNet(t) ==
    /\ pc[t] = "bc_lock_net"
    /\ netMutex = 0
    /\ netMutex' = t
    /\ Goto(t, "bc_close")
    /\ UNCHANGED <<tunVars, pureVars>>
    /\ UNCHANGED bindLife
    /\ UNCHANGED <<netState, isUp, peersMutex, peerMutex, peerSet, arg, err,
                   buHist, smHist>>

\* BindClose that keeps the bind installed when Bind.Close fails
Mut_BC_Close(t) ==
    /\ pc[t] = "bc_close"
    /\ \E closeErr \in CloseOutcomes(bind) :
          /\ bind' = IF closeErr THEN bind ELSE NoBind
          /\ err' = [err EXCEPT ![t] = closeErr]
    /\ AfterClose(bind)
    /\ Goto(t, "bc_unlock_net")
    /\ UNCHANGED <<tunVars, pureVars>>
    /\ UNCHANGED <<port, fwmark, isUp, locks, peerSet, arg, buHist, smHist>>

BC_Close(t) ==
    /\ pc[t] = "bc_close"
    /\ \E closeErr \in CloseOutcomes(bind) :
          /\ bind' = NoBind
          /\ err' = [err EXCEPT ![t] = closeErr]
    /\ AfterClose(bind)
    /\ Goto(t, "bc_unlock_net")
    /\ UNCHANGED <<tunVars, pureVars>>
    /\ UNCHANGED <<port, fwmark, isUp, locks, peerSet, arg, buHist, smHist>>

BC_UnlockNet(t) ==
    /\ pc[t] = "bc_unlock_net"
    /\ netMutex' = 0
    /\ err' = [err EXCEPT ![t] = FALSE]
    /\ Goto(t, "idle")
    /\ UNCHANGED <<tunVars, pureVars>>
    /\ UNCHANGED bindLife
    /\ UNCHANGED <<netState, isUp, peersMutex, peerMutex, peerSet, arg,
                   buHist, smHist>>

(***************************************************************************)
(* A receive routine of the active bind takes a datagram of peer p and     *)
(* caches its source address in the peer's endpoint, under the peer lock.  *)
(***************************************************************************)
RecordSrc(p) ==
    /\ ~bind.nil
    /\ routines.v4 + routines.v6 > 0
    /\ p \in keyMap
    /\ endpoint[p]
    /\ peerMutex[p] = 0
    /\ src' = [src EXCEPT ![p] = "fresh"]
    /\ UNCHANGED <<tunVars, pureVars>>
    /\ UNCHANGED <<netState, isUp, locks, peerSet, pc, arg, err, buHist,
                   smHist, routines, unclosed>>

(***************************************************************************)
(* tun_dragonfly.go: the TUN handle (nativeTun).                           *)
(***************************************************************************)
EventsCap == 10
ErrorsCap == 1
MinMsgLen == 14

MTUs == 0..MaxMTU

\* A panic ends the program once the deferred calls of the panicking
\* goroutine have run.  Only routineRouteListener defers a call: while it
\* unwinds ("unwind") from its own panic the other tasks still run.
Alive == IF mpc = "unwind" THEN Len(panicked) = 1 ELSE panicked = <<>>
AssignedName == "tun0"
Names == {"tun0", "wg0"}

\* the steps of CreateTUN and CreateTUNFromFile that can fail, in order
StepsBeforeOpen == {"length", "exists", "open"}
StepsOfCreateTUN == {"tunName", "ifhead", "ifmode", "rename"}
StepsOfFromFile == {"Name", "ifindex", "rwcancel", "routeSocket"}
FailSteps == StepsBeforeOpen \cup StepsOfCreateTUN \cup StepsOfFromFile

\* The descriptor after CreateTUN returned the error of `step`:
\* nothing was opened before "open" succeeded; the tunName and rename paths
\* call tunfile.Close(); the two ioctl paths return at once; the paths
\* of CreateTUNFromFile call tun.fd.Close() (and CreateTUN closes again).
FdAfterFailure(step) ==
    IF step \in StepsBeforeOpen THEN "none"
    ELSE IF step \in {"ifhead", "ifmode"} THEN "open"
    ELSE "closed"

\* up to MaxClose calls of Close are made on a handle
Closers == 1..MaxClose

NoClose == [differs |-> FALSE, renameErr |-> FALSE, fdErr |-> FALSE,
            cancelErr |-> FALSE, err4 |-> "nil"]

InitTun ==
    /\ phase = "new"
    /\ fd = "none"
    /\ name = ""
    /\ origName = ""
    /\ nameCall = <<>>
    /\ routeSocket = "none"
    /\ events = <<>>
    /\ eventsClosed = FALSE
    /\ errSlot = <<>>
    /\ panicked = <<>>
    /\ mpc = "off"
    /\ merr = "none"
    /\ statusUp = FALSE
    /\ statusMTU = 0
    /\ ifUp = FALSE
    /\ ifMTU = 0
    /\ gUp = FALSE
    /\ gMTU = 0
    /\ seenUp = <<>>
    /\ want = <<>>
    /\ emitted = <<>>
    /\ createRet = "none"
    /\ createFail = "none"
    /\ nClose = 0
    /\ cpc = [c \in Closers |-> "idle"]
    /\ closeIn = [c \in Closers |-> NoClose]
    /\ closeTrace = [c \in Closers |-> <<>>]
    /\ closeRet = [c \in Closers |-> "none"]
    /\ cancelled = FALSE
    /\ rpc = "idle"
    /\ readRet = "none"
    /\ didRead = FALSE
    /\ slotReturns = 0
    /\ atClose = FALSE

\* no Write call and no device probing is under way
NoWrite ==
    /\ winput = <<>>
    /\ wbuff = <<>>
    /\ woffset = 0
    /\ wpc = "idle"
    /\ written = <<>>

NoProbe ==
    /\ free = {}
    /\ generic = FALSE
    /\ probeI = 0
    /\ tunfile = [kind |-> "nil", n |-> -1]
    /\ tries = <<>>
    /\ ppc = "idle"

Init == InitBind /\ InitTun /\ NoWrite /\ NoProbe

(***************************************************************************)
(* nativeTun.Close, tun_dragonfly.go:435-458.  Nothing serialises a Close  *)
(* with another Close or with the other users of the handle: every access  *)
(* to the handle is a step of its own, and the calls can overlap.          *)
(***************************************************************************)
\* close(tun.events): closing a closed channel panics
CloseEvents ==
    IF eventsClosed
    THEN /\ panicked' = Append(panicked, "close of closed channel")
         /\ UNCHANGED eventsClosed
    ELSE /\ eventsClosed' = TRUE
         /\ UNCHANGED panicked

\* if err1 != nil { return err1 }; if err2 != nil { return err2 }; return err4
CloseResult(err1, err2, err4) ==
    IF err1 # "nil" THEN err1
    ELSE IF err2 # "nil" THEN err2
    ELSE err4

\* the return statement (lines 450-457) applied to the locals of a call
ReturnOf(in) ==
    CloseResult(IF in.cancelErr THEN "cancel" ELSE "nil",
                IF in.fdErr THEN "fd" ELSE "nil",
                in.err4)

\* a call of tun.Close() up to line 440: the test of tun.name against
\* tun.origName and, when they differ, renameTun, whose error goes to err4
CloseBegin(renameErr) ==
    LET c == nClose + 1
        differs == name # origName
    IN  /\ nClose < MaxClose
        /\ ~differs => ~renameErr
        /\ nClose' = c
        /\ cpc' = [cpc EXCEPT ![c] = "fd"]
        /\ closeIn' = [closeIn EXCEPT ![c] =
                          [NoClose EXCEPT !.differs = differs,
                                          !.renameErr = renameErr,
                                          !.err4 = IF renameErr THEN "rename"
                                                   ELSE "nil"]]
        /\ closeTrace' = [closeTrace EXCEPT ![c] =
                             IF differs THEN <<"rename">> ELSE <<>>]
        /\ UNCHANGED closeRet

\* Close called on a handle that CreateTUN returned
Close(renameErr) ==
    /\ phase = "live"
    /\ Alive
    /\ CloseBegin(renameErr)
    /\ atClose' = (atClose \/ rpc \in {"fdread", "ready"})
    /\ UNCHANGED <<bindVars, pureVars>>
    /\ UNCHANGED <<rpc, readRet, didRead, slotReturns>>
    /\ UNCHANGED <<tunState, chans, panicked, monState, monHist, createHist,
                   cancelled>>

\* err2 := tun.fd.Close() (line 442); closing a descriptor that is already
\* closed fails (os.ErrClosed)
Close_Fd(c, fdErr) ==
    /\ cpc[c] = "fd"
    /\ Alive
    /\ fd # "open" => fdErr
    /\ fd' = "closed"
    /\ cpc' = [cpc EXCEPT ![c] = "cancel"]
    /\ closeIn' = [closeIn EXCEPT ![c].fdErr = fdErr]
    /\ closeTrace' = [closeTrace EXCEPT ![c] = Append(@, "fdClose")]
    /\ UNCHANGED <<bindVars, pureVars, readVars>>
    /\ UNCHANGED <<phase, name, origName, nameCall, routeSocket, chans,
                   panicked, monState, monHist, createHist, nClose, closeRet,
                   cancelled>>

\* rwcancel.RWCancel.Cancel signals the reader: from then on ReadyRead
\* reports the descriptor gone and a reader blocked in the device read is
\* woken, its read ending with a retry-class error unless the device answers
\* first.  A Cancel that fails has signalled nothing.
Cancel(ok) == cancelled' = (cancelled \/ ok)

\* Cancel returns once no reader is blocked in the device read any more
Acknowledged == rpc # "fdread"

\* err1 := tun.rwcancel.Cancel() (line 443): the signal, and the return when
\* Cancel failed or has no reader to wait for
Close_Cancel(c, cancelErr) ==
    /\ cpc[c] = "cancel"
    /\ Alive
    /\ Cancel(~cancelErr)
    /\ cpc' = [cpc EXCEPT ![c] = IF cancelErr \/ Acknowledged THEN "route"
                                 ELSE "ack"]
    /\ closeIn' = [closeIn EXCEPT ![c].cancelErr = cancelErr]
    /\ closeTrace' = [closeTrace EXCEPT ![c] = Append(@, "cancel")]
    /\ UNCHANGED <<bindVars, pureVars, readVars>>
    /\ UNCHANGED <<tunState, chans, panicked, monState, monHist, createHist,
                   nClose, closeRet>>

\* the Cancel of line 443 returns: the reader has observed the signal
Close_CancelAck(c) ==
    /\ cpc[c] = "ack"
    /\ Alive
    /\ Acknowledged
    /\ cpc' = [cpc EXCEPT ![c] = "route"]
    /\ UNCHANGED <<bindVars, pureVars, readVars>>
    /\ UNCHANGED <<tunState, chans, panicked, monState, monHist, createHist,
                   nClose, closeIn, closeTrace, closeRet, cancelled>>

\* the test of tun.routeSocket against -1 (line 444) with what follows it at
\* once: unix.Shutdown (445), which only acts on an open socket and whose
\* error is dropped, or close(tun.events) (449) and the return
Close_Route(c) ==
    /\ cpc[c] = "route"
    /\ Alive
    /\ IF routeSocket # "unset"
       THEN /\ routeSocket' = IF routeSocket = "open" THEN "shutdown"
                              ELSE routeSocket
            /\ cpc' = [cpc EXCEPT ![c] = "rclose"]
            /\ closeTrace' = [closeTrace EXCEPT ![c] = Append(@, "shutdown")]
            /\ UNCHANGED <<eventsClosed, panicked, closeRet>>
       ELSE /\ CloseEvents
            /\ closeTrace' =
                   [closeTrace EXCEPT ![c] = Append(@, "closeEvents")]
            /\ IF eventsClosed
               THEN UNCHANGED <<cpc, closeRet>>
               ELSE /\ cpc' = [cpc EXCEPT ![c] = "done"]
                    /\ closeRet' =
                           [closeRet EXCEPT ![c] = ReturnOf(closeIn[c])]
            /\ UNCHANGED routeSocket
    /\ UNCHANGED <<bindVars, pureVars, readVars>>
    /\ UNCHANGED <<phase, fd, name, origName, nameCall, events, errSlot,
                   monState, monHist, createHist, nClose, closeIn, cancelled>>

\* err4 = unix.Close(tun.routeSocket) (line 446): it replaces what renameTun
\* left in err4; on a descriptor that another Close has closed, or on the
\* -1 another Close has stored, it fails
Close_RouteClose(c, routeErr) ==
    /\ cpc[c] = "rclose"
    /\ Alive
    /\ routeSocket # "shutdown" => routeErr
    /\ routeSocket' = IF routeSocket = "shutdown" THEN "closed"
                      ELSE routeSocket
    /\ cpc' = [cpc EXCEPT ![c] = "store"]
    /\ closeIn' = [closeIn EXCEPT ![c].err4 = IF routeErr THEN "route"
                                              ELSE "nil"]
    /\ closeTrace' = [closeTrace EXCEPT ![c] = Append(@, "routeClose")]
    /\ UNCHANGED <<bindVars, pureVars, readVars>>
    /\ UNCHANGED <<phase, fd, name, origName, nameCall, chans, panicked,
                   monState, monHist, createHist, nClose, closeRet,
                   cancelled>>

\* tun.routeSocket = -1 (line 447) and the return
Close_Store(c) ==
    /\ cpc[c] = "store"
    /\ Alive
    /\ routeSocket' = "unset"
    /\ cpc' = [cpc EXCEPT ![c] = "done"]
    /\ closeRet' = [closeRet EXCEPT ![c] = ReturnOf(closeIn[c])]
    /\ UNCHANGED <<bindVars, pureVars, readVars>>
    /\ UNCHANGED <<phase, fd, name, origName, nameCall, chans, panicked,
                   monState, monHist, createHist, nClose, closeIn, closeTrace,
                   cancelled>>

\* the steps of the Close calls under way when no teardown step fails but
\* those that must: what a step does to the handle is the same whether or
\* not it reports an error, which only the caller of Close sees
QuietCloserStep ==
    \E c \in Closers :
        \/ Close_Fd(c, fd # "open")
        \/ Close_Cancel(c, FALSE)
        \/ Close_Route(c)
        \/ Close_RouteClose(c, routeSocket # "shutdown")
        \/ Close_Store(c)

\* the steps of the Close calls under way.  With no task inside Read, here
\* and above, Cancel has no reader to wait for.
CloserStep ==
    \E c \in Closers :
        \/ \E fdErr \in BOOLEAN : Close_Fd(c, fdErr)
        \/ \E cancelErr \in BOOLEAN : Close_Cancel(c, cancelErr)
        \/ Close_Route(c)
        \/ \E routeErr \in BOOLEAN : Close_RouteClose(c, routeErr)
        \/ Close_Store(c)

(***************************************************************************)
(* CreateTUN, tun_dragonfly.go:232-317, with CreateTUNFromFile, 319-367    *)
(***************************************************************************)
\* CreateTUN up to `go tun.routineRouteListener(tunIfindex)`, or up to the
\* return of the first failing step
CreateTUN(req, failAt) ==
    /\ phase = "new"
    /\ IF failAt = "none"
       THEN /\ phase' = "starting"
            /\ fd' = "open"
            /\ name' = req
            /\ origName' = req
            /\ routeSocket' = "open"
            /\ mpc' = "read"
            /\ UNCHANGED createHist
       ELSE /\ phase' = "failed"
            /\ fd' = FdAfterFailure(failAt)
            /\ createRet' = "err"
            /\ createFail' = failAt
            /\ UNCHANGED <<name, origName, routeSocket, mpc>>
    /\ UNCHANGED <<bindVars, pureVars, readVars>>
    /\ UNCHANGED cancelled
    /\ UNCHANGED <<nameCall, chans, panicked, merr, statusUp, statusMTU, ifUp,
                   ifMTU, monHist, closeHist>>

\* tun.setMTU(mtu) and the rest of CreateTUN; the monitor is running
\* (lines 359-363 and 309-316).  When setMTU fails CreateTUNFromFile calls
\* tun.Close(), which runs as every Close does.
CreateTUN_SetMTU(mtuOk, renameErr) ==
    /\ phase = "starting"
    /\ Alive
    /\ IF mtuOk
       THEN /\ ~renameErr
            /\ phase' = "live"
            /\ origName' = AssignedName
            /\ createRet' = "ok"
            /\ UNCHANGED <<createFail, closeHist>>
       ELSE /\ phase' = "closing"
            /\ CloseBegin(renameErr)
            /\ UNCHANGED <<origName, createHist>>
    /\ UNCHANGED <<bindVars, pureVars, readVars>>
    /\ UNCHANGED <<fd, name, nameCall, routeSocket, chans, panicked, monState,
                   monHist, cancelled>>

\* the tun.Close() of line 361 has returned: CreateTUNFromFile returns the
\* error of setMTU, and CreateTUN closes tunfile once more and returns it
CreateTUN_Fail ==
    /\ phase = "closing"
    /\ Alive
    /\ cpc[nClose] = "done"
    /\ phase' = "failed"
    /\ createRet' = "err"
    /\ createFail' = "setMTU"
    /\ UNCHANGED <<bindVars, pureVars, readVars>>
    /\ UNCHANGED <<fd, name, origName, nameCall, routeSocket, chans, panicked,
                   monState, monHist, closeHist, cancelled>>

(***************************************************************************)
(* nativeTun.routineRouteListener, tun_dragonfly.go:62-116                 *)
(***************************************************************************)
Msgs == [n : {0, MinMsgLen - 1, MinMsgLen}, kind : {"RTM_IFINFO", "other"},
         ifindex : {"tun", "other"}]

\* a notification for the owned interface: long enough, of the interface-info
\* kind, carrying the interface index captured at monitor start
Matching(msg) ==
    msg.n >= MinMsgLen /\ msg.kind = "RTM_IFINFO" /\ msg.ifindex = "tun"

\* the events due for a matching notification that reports (up, mtu) when
\* the previous one reported (pu, pm): an Up or Down for a changed flag, then
\* an MTUChanged for a changed MTU
EventsDue(up, mtu, pu, pm) ==
    (IF up = pu THEN <<>> ELSE <<IF up THEN "Up" ELSE "Down">>)
        \o (IF mtu = pm THEN <<>> ELSE <<"MTU">>)

\* the three `continue` tests of the loop
Mut_Discarded(msg) ==
    \/ msg.kind # "RTM_IFINFO"
    \/ msg.ifindex # "tun"

Discarded(msg) ==
    \/ msg.n < MinMsgLen
    \/ msg.kind # "RTM_IFINFO"
    \/ msg.ifindex # "tun"

\* tun.events <- e: blocks while the buffer is full, panics once closed
Send(e) ==
    IF eventsClosed
    THEN /\ panicked' = Append(panicked, "send on closed channel")
         /\ UNCHANGED <<events, emitted>>
    ELSE /\ Len(events) < EventsCap
         /\ events' = Append(events, e)
         /\ emitted' = Append(emitted, e)
         /\ UNCHANGED panicked

\* the errors unix.Read can report on the routing socket: the interrupted
\* call, a retry condition, any other error (EBADF stands for them); a
\* socket that was shut down reads 0 bytes at once, a descriptor that Close
\* has closed (or the -1 it stored) only reports EBADF
Errnos == {"EINTR", "EAGAIN", "EBADF"}
ReadErrnos(sock) ==
    IF sock = "open" THEN Errnos
    ELSE IF sock = "shutdown" THEN {}
    ELSE {"EBADF"}

\* unix.Read fails: EINTR is retried, any other error ends the monitor
M_ReadErr(errno) ==
    /\ mpc = "read"
    /\ Alive
    /\ errno \in ReadErrnos(routeSocket)
    /\ IF errno = "EINTR"
       THEN UNCHANGED <<mpc, merr>>
       ELSE mpc' = "fail" /\ merr' = errno
    /\ UNCHANGED <<bindVars, pureVars, readVars>>
    /\ UNCHANGED cancelled
    /\ UNCHANGED <<tunState, chans, panicked, statusUp, statusMTU, ifUp,
                   ifMTU, monHist, createHist, closeHist>>

\* what net.InterfaceByIndex can answer: an error, or the flags and MTU
NoIface == [ok |-> FALSE, up |-> FALSE, mtu |-> 0]
Ifaces == {NoIface} \cup [ok : {TRUE}, up : BOOLEAN, mtu : MTUs]
Lookups(msg) == IF Discarded(msg) THEN {NoIface} ELSE Ifaces

\* the answers while the interface comes up and stays up
UpIface == [ok |-> TRUE, up |-> TRUE, mtu |-> MaxMTU]
LookupsUp(msg) == IF Discarded(msg) THEN {NoIface} ELSE {NoIface, UpIface}

\* unix.Read returns a message; a matching one is followed by
\* net.InterfaceByIndex.  A socket that was shut down reads 0 bytes, also
\* in a unix.Read that was waiting when Close went on to close it.
M_ReadMsg(msg, iface) ==
    /\ mpc = "read"
    /\ Alive
    /\ routeSocket # "open" => msg.n = 0
    /\ IF Discarded(msg)
       THEN UNCHANGED <<mpc, merr, ifUp, ifMTU>>
       ELSE IF ~iface.ok
       THEN /\ mpc' = "fail"
            /\ merr' = "lookup"
            /\ UNCHANGED <<ifUp, ifMTU>>
       ELSE /\ mpc' = "updown"
            /\ ifUp' = iface.up
            /\ ifMTU' = iface.mtu
            /\ UNCHANGED merr
    /\ IF Matching(msg) /\ iface.ok
       THEN /\ want' = want \o EventsDue(iface.up, iface.mtu, gUp, gMTU)
            /\ Len(want') <= MaxEvents
            /\ gUp' = iface.up
            /\ gMTU' = iface.mtu
            /\ seenUp' = IF seenUp # <<>> /\ seenUp[Len(seenUp)] = iface.up
                         THEN seenUp
                         ELSE Append(seenUp, iface.up)
       ELSE UNCHANGED <<gUp, gMTU, seenUp, want>>
    /\ UNCHANGED <<bindVars, pureVars, readVars>>
    /\ UNCHANGED cancelled
    /\ UNCHANGED <<tunState, chans, panicked, statusUp, statusMTU, emitted,
                   createHist, closeHist>>

\* "Up / Down event": lines 101-108.  A send that panics leaves the
\* function through its deferred call.
Mut_M_UpDown ==
    /\ mpc = "updown"
    /\ Alive
    /\ IF ifUp # statusUp
       THEN Send(IF ifUp THEN "Up" ELSE "Down")
       ELSE UNCHANGED <<events, emitted, panicked>>
    /\ mpc' = IF panicked' = panicked THEN "mtu" ELSE "unwind"
    /\ UNCHANGED statusUp
    /\ UNCHANGED <<bindVars, pureVars, readVars>>
    /\ UNCHANGED cancelled
    /\ UNCHANGED <<tunState, eventsClosed, errSlot, merr, statusMTU, ifUp,
                   ifMTU, gUp, gMTU, seenUp, want, createHist, closeHist>>

M_UpDown ==
    /\ mpc = "updown"
    /\ Alive
    /\ IF ifUp # statusUp
       THEN Send(IF ifUp THEN "Up" ELSE "Down")
       ELSE UNCHANGED <<events, emitted, panicked>>
    /\ IF panicked' = panicked
       THEN statusUp' = ifUp /\ mpc' = "mtu"
       ELSE mpc' = "unwind" /\ UNCHANGED statusUp
    /\ UNCHANGED <<bindVars, pureVars, readVars>>
    /\ UNCHANGED cancelled
    /\ UNCHANGED <<tunState, eventsClosed, errSlot, merr, statusMTU, ifUp,
                   ifMTU, gUp, gMTU, seenUp, want, createHist, closeHist>>

\* "MTU changes": lines 110-114
M_MTU ==
    /\ mpc = "mtu"
    /\ Alive
    /\ IF ifMTU # statusMTU
       THEN Send("MTU")
       ELSE UNCHANGED <<events, emitted, panicked>>
    /\ IF panicked' = panicked
       THEN statusMTU' = ifMTU /\ mpc' = "read"
       ELSE mpc' = "unwind" /\ UNCHANGED statusMTU
    /\ UNCHANGED <<bindVars, pureVars, readVars>>
    /\ UNCHANGED cancelled
    /\ UNCHANGED <<tunState, eventsClosed, errSlot, merr, statusUp, ifUp,
                   ifMTU, gUp, gMTU, seenUp, want, createHist, closeHist>>

\* tun.errors <- err (lines 78 and 96), then `return`
M_Fail ==
    /\ mpc = "fail"
    /\ Alive
    /\ Len(errSlot) < ErrorsCap
    /\ errSlot' = Append(errSlot, merr)
    /\ merr' = "none"
    /\ mpc' = "return"
    /\ UNCHANGED <<bindVars, pureVars, readVars>>
    /\ UNCHANGED cancelled
    /\ UNCHANGED <<tunState, events, eventsClosed, panicked, statusUp,
                   statusMTU, ifUp, ifMTU, monHist, createHist, closeHist>>

\* the deferred close(tun.events) of line 68, run when the function returns
\* and when a panic unwinds it
M_Return ==
    /\ mpc \in {"return", "unwind"}
    /\ Alive
    /\ CloseEvents
    /\ mpc' = IF eventsClosed THEN mpc ELSE "done"
    /\ UNCHANGED <<bindVars, pureVars, readVars>>
    /\ UNCHANGED cancelled
    /\ UNCHANGED <<tunState, events, errSlot, merr, statusUp, statusMTU, ifUp,
                   ifMTU, monHist, createHist, closeHist>>

\* nativeTun.Name, lines 369-376, takes no lock: tunName (line 370) and the
\* store to tun.name (line 374) are two steps.  tunName answers the
\* interface's present name (it can be renamed from outside), the name of
\* another interface this process has opened, or "" when none is found; on an
\* error (as for a closed descriptor) Name returns and tun.name stays.
NameAnswers == Names \cup {""}

Name_Lookup(ok, ans) ==
    /\ phase = "live"
    /\ Alive
    /\ nameCall = <<>>
    /\ fd # "open" => ~ok
    /\ nameCall' = IF ok THEN <<ans>> ELSE <<>>
    /\ UNCHANGED <<bindVars, pureVars, readVars>>
    /\ UNCHANGED cancelled
    /\ UNCHANGED <<phase, fd, name, origName, routeSocket, chans, panicked,
                   monState, monHist, createHist, closeHist>>

\* tun.name = name (line 374)
Name_Store ==
    /\ nameCall # <<>>
    /\ Alive
    /\ name' = nameCall[1]
    /\ nameCall' = <<>>
    /\ UNCHANGED <<bindVars, pureVars, readVars>>
    /\ UNCHANGED cancelled
    /\ UNCHANGED <<phase, fd, origName, routeSocket, chans, panicked,
                   monState, monHist, createHist, closeHist>>

\* the owner of the handle receives from Events()
Consume ==
    /\ phase = "live"
    /\ Alive
    /\ Len(events) > 0
    /\ events' = Tail(events)
    /\ UNCHANGED <<bindVars, pureVars, readVars>>
    /\ UNCHANGED cancelled
    /\ UNCHANGED <<tunState, eventsClosed, errSlot, panicked, monState,
                   monHist, createHist, closeHist>>

(***************************************************************************)
(* nativeTun.Read and doRead, tun_dragonfly.go:386-410, with the           *)
(* cancellable wrapper of package rwcancel.                                *)
(***************************************************************************)
\* what tun.fd.Read can answer, given the descriptor as it was when the read
\* was called: a packet with its 4-byte prefix ("data"), fewer than 4 bytes
\* and no error ("short"), EAGAIN or EINTR ("again"), or any other error
\* ("fail"); a read called on a closed os.File only fails (os.ErrClosed).
\* A read under way when tun.fd.Close() runs can still answer any of them.
FdReads(f) == IF f = "open" THEN {"data", "short", "again", "fail"}
              ELSE {"fail"}

\* rwcancel.RetryAfterError: the recognized retry conditions, of a device
\* read ("again") or of an error taken from tun.errors
RetryAfterError(e) == e \in {"again", "EAGAIN"}

\* rwcancel.ReadyRead: false once the wrapper was cancelled (the descriptor
\* is gone), true when the descriptor has become readable (or the wait
\* ended for another reason before any cancellation)
ReadyRead(c) == IF c THEN {FALSE} ELSE {TRUE}

\* doRead's return for an answer of tun.fd.Read that is not retried
ReadResult(out) ==
    IF out = "data" THEN "payload"
    ELSE IF out = "short" THEN "short"
    ELSE "err"

\* a task calls tun.Read on the handle CreateTUN returned
R_Call ==
    /\ rpc = "idle"
    /\ phase = "live"
    /\ Alive
    /\ rpc' = "start"
    /\ didRead' = FALSE
    /\ UNCHANGED <<bindVars, pureVars>>
    /\ UNCHANGED <<tunState, chans, panicked, monState, monHist, createHist,
                   closeHist, cancelled, readRet, slotReturns, atClose>>

\* doRead's select (lines 387-390): it takes the monitor's error when the
\* slot holds one, and Read applies its test of line 403 to it as to an error
\* of tun.fd.Read; else the default branch calls tun.fd.Read (line 392),
\* which is then under way
R_Select ==
    /\ rpc \in {"start", "retry"}
    /\ Alive
    /\ IF errSlot # <<>>
       THEN /\ errSlot' = Tail(errSlot)
            /\ IF RetryAfterError(Head(errSlot))
               THEN /\ rpc' = "ready"
                    /\ UNCHANGED <<readRet, slotReturns>>
               ELSE /\ rpc' = "idle"
                    /\ readRet' = "slot"
                    /\ slotReturns' = slotReturns + 1
       ELSE /\ rpc' = IF fd = "open" THEN "fdread" ELSE "fdfail"
            /\ UNCHANGED <<errSlot, readRet, slotReturns>>
    /\ atClose' = (atClose /\ rpc' # "idle")
    /\ UNCHANGED didRead
    /\ UNCHANGED <<bindVars, pureVars>>
    /\ UNCHANGED <<tunState, events, eventsClosed, panicked, monState,
                   monHist, createHist, closeHist, cancelled>>

\* tun.fd.Read answers (lines 392-397), and the test of line 403
R_FdRead(out) ==
    /\ rpc \in {"fdread", "fdfail"}
    /\ Alive
    /\ out \in FdReads(IF rpc = "fdread" THEN "open" ELSE "closed")
    /\ didRead' = TRUE
    /\ IF RetryAfterError(out)
       THEN rpc' = "ready" /\ UNCHANGED readRet
       ELSE rpc' = "idle" /\ readRet' = ReadResult(out)
    /\ atClose' = (atClose /\ rpc' # "idle")
    /\ UNCHANGED slotReturns
    /\ UNCHANGED <<bindVars, pureVars>>
    /\ UNCHANGED <<tunState, chans, panicked, monState, monHist, createHist,
                   closeHist, cancelled>>

\* if !tun.rwcancel.ReadyRead() { return 0, "tun device closed" }
R_ReadyRead(ready) ==
    /\ rpc = "ready"
    /\ Alive
    /\ ready \in ReadyRead(cancelled)
    /\ IF ready
       THEN rpc' = "retry" /\ UNCHANGED readRet
       ELSE rpc' = "idle" /\ readRet' = "closed"
    /\ atClose' = (atClose /\ rpc' # "idle")
    /\ UNCHANGED <<bindVars, pureVars>>
    /\ UNCHANGED <<tunState, chans, panicked, monState, monHist, createHist,
                   closeHist, cancelled, didRead, slotReturns>>

(***************************************************************************)
(* nativeTun.Write, tun_dragonfly.go:412-433                               *)
(***************************************************************************)
IPv6Version == 6
AF_INET == 2
AF_INET6 == 28

HeaderLen == 4

\* the bytes the buffers are drawn from: what lies in front of the payload
\* is zero or 0xff; a payload byte is 0x00, 0x46, 0x60 or 0xff
FillBytes == {0, 255}
PayloadBytes == {0, 70, 96, 255}

\* buff[from:], a slice that shares the buffer's bytes
Slice(buf, from) == SubSeq(buf, from + 1, Len(buf))

\* b >> 4 of a byte
HighNibble(b) == b \div 16

\* the family tag for a framed packet b (b[4] is the payload's first byte)
Mut_FamilyTag(b) ==
    IF b[HeaderLen + 1] % 16 = IPv6Version THEN AF_INET6 ELSE AF_INET

FamilyTag(b) ==
    IF HighNibble(b[HeaderLen + 1]) = IPv6Version THEN AF_INET6 ELSE AF_INET

\* the slice after "add packet information header"
Framed(buf, off) ==
    LET b == Slice(buf, off - HeaderLen)
        z == [b EXCEPT ![1] = 0, ![2] = 0, ![3] = 0]
    IN  [z EXCEPT ![4] = FamilyTag(z)]

\* the caller's buffers: `off` bytes in front of a payload of at least a byte
WriteInputs ==
    UNION {{<<pre \o pay, off>> :
                pre \in [1..off -> FillBytes], pay \in [1..n -> PayloadBytes]} :
           off \in HeaderLen..MaxOffset, n \in 1..MaxPayload}

InitWrite ==
    /\ \E in \in WriteInputs :
          /\ winput = in[1]
          /\ wbuff = in[1]
          /\ woffset = in[2]
    /\ wpc = "idle"
    /\ written = <<>>

\* tun.Write(buff, offset)
Write ==
    /\ wpc = "idle"
    /\ wbuff # <<>>
    /\ LET b == Framed(wbuff, woffset)
       IN  /\ wbuff' = SubSeq(wbuff, 1, woffset - HeaderLen) \o b
           /\ written' = b
    /\ wpc' = "done"
    /\ UNCHANGED <<bindVars, tunVars, probeVars>>
    /\ UNCHANGED <<winput, woffset>>

(***************************************************************************)
(* CreateTUN, "Try and open a usable tun device", tun_dragonfly.go:243-262 *)
(***************************************************************************)
NumProbes == 99

NilFile == [kind |-> "nil", n |-> -1]
Numbered(i) == [kind |-> "numbered", n |-> i]
GenericFile == [kind |-> "generic", n |-> -1]

\* the device numbers whose availability varies; no other /dev/tunN opens
ProbeSample == {0, 1, NumProbes - 2, NumProbes - 1, NumProbes}

InitProbe ==
    /\ free \in SUBSET ProbeSample
    /\ generic \in BOOLEAN
    /\ probeI = 0
    /\ tunfile = NilFile
    /\ tries = <<>>
    /\ ppc = "loop"

\* one iteration of the loop: the open succeeds and the loop goes on
Mut_P_Probe ==
    /\ ppc = "loop"
    /\ probeI < NumProbes
    /\ tries' = Append(tries, probeI)
    /\ tunfile' = IF probeI \in free THEN Numbered(probeI) ELSE NilFile
    /\ probeI' = probeI + 1
    /\ UNCHANGED ppc
    /\ UNCHANGED <<bindVars, tunVars, writeVars>>
    /\ UNCHANGED <<free, generic>>

\* one iteration of: for i := 0; i < 99; i++ { OpenFile; break when opened }
P_Probe ==
    /\ ppc = "loop"
    /\ probeI < NumProbes
    /\ tries' = Append(tries, probeI)
    /\ IF probeI \in free
       THEN /\ tunfile' = Numbered(probeI)
            /\ ppc' = "after"
            /\ UNCHANGED probeI
       ELSE /\ tunfile' = NilFile
            /\ probeI' = probeI + 1
            /\ UNCHANGED ppc
    /\ UNCHANGED <<bindVars, tunVars, writeVars>>
    /\ UNCHANGED <<free, generic>>

\* the loop condition i < 99 fails
P_LoopEnd ==
    /\ ppc = "loop"
    /\ probeI >= NumProbes
    /\ ppc' = "after"
    /\ UNCHANGED <<bindVars, tunVars, writeVars>>
    /\ UNCHANGED <<free, generic, probeI, tunfile, tries>>

\* if tunfile == nil { OpenFile("/dev/tun"); return nil, err on failure }
P_Fallback ==
    /\ ppc = "after"
    /\ IF tunfile = NilFile
       THEN IF generic
            THEN tunfile' = GenericFile /\ ppc' = "opened"
            ELSE ppc' = "error" /\ UNCHANGED tunfile
       ELSE ppc' = "opened" /\ UNCHANGED tunfile
    /\ UNCHANGED <<bindVars, tunVars, writeVars>>
    /\ UNCHANGED <<free, generic, probeI, tries>>

(***************************************************************************)
(* Specification of the bind coordinator.                                  *)
(***************************************************************************)
ThreadStep(t) ==
    \/ Call_BindUpdate(t)
    \/ BU_LockNet(t)
    \/ BU_LockPeers(t)
    \/ BU_Close(t)
    \/ BU_Open(t)
    \/ \E p \in Peers : BU_ClearPeer(t, p)
    \/ BU_Start(t)
    \/ BU_UnlockPeer(t)
    \/ BU_UnlockPeers(t)
    \/ BU_UnlockNet(t)
    \/ \E m \in Marks : Call_BindSetMark(t, m)
    \/ SM_LockNet(t)
    \/ SM_LockPeers(t)
    \/ SM_Body(t)
    \/ SM_UnlockPeers(t)
    \/ SM_UnlockNet(t)
    \/ Call_BindClose(t)
    \/ BC_LockNet(t)
    \/ BC_Close(t)
    \/ BC_UnlockNet(t)

\* the steps of a call that is already running (everything but its start)
Running(t) ==
    /\ pc[t] # "idle"
    /\ ThreadStep(t)

NextBind ==
    \/ SetUp
    \/ \E t \in Threads : ThreadStep(t)

SpecBind == Init /\ [][NextBind]_vars

\* sync.Mutex hands a starving waiter the lock (starvation mode), and the
\* scheduler runs every runnable goroutine: strong fairness of running calls.
FairSpecBind == SpecBind /\ \A t \in Threads : SF_vars(Running(t))

(***************************************************************************)
(* Specification of the bind coordinator with the receive path caching     *)
(* peer source addresses.                                                  *)
(***************************************************************************)
NextBindRx ==
    \/ SetUp
    \/ \E t \in Threads : ThreadStep(t)
    \/ \E p \in Peers : RecordSrc(p)

SpecBindRx == Init /\ [][NextBindRx]_vars

(***************************************************************************)
(* Specification of the TUN handle: its creation, its monitor, and the     *)
(* tasks that call Name and Close on it, with every outcome of every       *)
(* teardown step.  The interface comes up once and stays as it is.         *)
(***************************************************************************)
NextTun ==
    \/ \E req \in Names, failAt \in FailSteps \cup {"none"} :
           CreateTUN(req, failAt)
    \/ \E mtuOk, renameErr \in BOOLEAN : CreateTUN_SetMTU(mtuOk, renameErr)
    \/ CreateTUN_Fail
    \/ \E errno \in Errnos : M_ReadErr(errno)
    \/ \E msg \in Msgs : \E iface \in LookupsUp(msg) : M_ReadMsg(msg, iface)
    \/ M_UpDown
    \/ M_MTU
    \/ M_Fail
    \/ M_Return
    \/ Consume
    \/ \E ok \in BOOLEAN, ans \in NameAnswers : Name_Lookup(ok, ans)
    \/ Name_Store
    \/ \E renameErr \in BOOLEAN : Close(renameErr)
    \/ CloserStep

\* the TUN handle does not depend on the device's peers: none are configured
InitNoPeers == Init /\ keyMap = {}

SpecTun == InitNoPeers /\ [][NextTun]_vars

(***************************************************************************)
(* Specification of the TUN handle's events: the monitor with every        *)
(* sequence of interface changes, the owner receiving from Events(), and   *)
(* Close.  Name is not called and no teardown step fails unless it must:   *)
(* tun.name and the errors of Close only matter to what Close returns.     *)
(***************************************************************************)
NextEvents ==
    \/ \E req \in Names, failAt \in FailSteps \cup {"none"} :
           CreateTUN(req, failAt)
    \/ \E mtuOk \in BOOLEAN : CreateTUN_SetMTU(mtuOk, FALSE)
    \/ CreateTUN_Fail
    \/ \E errno \in Errnos : M_ReadErr(errno)
    \/ \E msg \in Msgs : \E iface \in Lookups(msg) : M_ReadMsg(msg, iface)
    \/ M_UpDown
    \/ M_MTU
    \/ M_Fail
    \/ M_Return
    \/ Consume
    \/ Close(FALSE)
    \/ QuietCloserStep

SpecEvents == InitNoPeers /\ [][NextEvents]_vars

(***************************************************************************)
(* Specification of the TUN handle with a task calling Read.  No interface *)
(* change is notified: the monitor only discards messages or fails.  Name  *)
(* is not called, and of the teardown steps only Cancel fails unless it    *)
(* must: tun.name and the other errors of Close only matter to what Close  *)
(* returns.                                                                *)
(***************************************************************************)
\* the steps of the Close calls under way, Cancel succeeding or failing, and
\* waiting for a reader blocked in the device read
CancelCloserStep ==
    \E c \in Closers :
        \/ Close_Fd(c, fd # "open")
        \/ \E cancelErr \in BOOLEAN : Close_Cancel(c, cancelErr)
        \/ Close_CancelAck(c)
        \/ Close_Route(c)
        \/ Close_RouteClose(c, routeSocket # "shutdown")
        \/ Close_Store(c)

ReaderStep ==
    \/ R_Select
    \/ \E out \in {"data", "short", "again", "fail"} : R_FdRead(out)
    \/ \E ready \in BOOLEAN : R_ReadyRead(ready)

NextRead ==
    \/ \E req \in Names, failAt \in FailSteps \cup {"none"} :
           CreateTUN(req, failAt)
    \/ \E mtuOk \in BOOLEAN : CreateTUN_SetMTU(mtuOk, FALSE)
    \/ CreateTUN_Fail
    \/ \E errno \in Errnos : M_ReadErr(errno)
    \/ \E msg \in Msgs : M_ReadMsg(msg, NoIface)
    \/ M_Fail
    \/ M_Return
    \/ Close(FALSE)
    \/ CancelCloserStep
    \/ R_Call
    \/ ReaderStep

SpecRead == InitNoPeers /\ [][NextRead]_vars

\* the scheduler runs the task inside Read whenever it is runnable: at the
\* select, in tun.fd.Read on a descriptor that was closed before the call
\* (which fails at once), in tun.fd.Read once Cancel has signalled (which
\* wakes it), or in ReadyRead once the wrapper was cancelled.  Nothing
\* promises that a read of the open device ever answers or that the device
\* ever becomes readable.
RunnableReader ==
    \/ R_Select
    \/ (rpc = "fdfail" /\ R_FdRead("fail"))
    \/ (rpc = "fdread" /\ cancelled /\ R_FdRead("again"))
    \/ R_ReadyRead(FALSE)

\* a task inside Close is runnable at every step but the wait inside Cancel,
\* which ends when the reader has observed the signal
FairSpecRead == SpecRead /\ WF_vars(RunnableReader)
                         /\ WF_vars(CancelCloserStep)

(***************************************************************************)
(* Specification of Write: one call on every buffer of WriteInputs.        *)
(***************************************************************************)
InitW == InitBind /\ keyMap = {} /\ InitTun /\ InitWrite /\ NoProbe

NextWrite == Write

SpecWrite == InitW /\ [][NextWrite]_vars

(***************************************************************************)
(* Specification of the device probing, for every availability pattern.    *)
(***************************************************************************)
InitP == InitBind /\ keyMap = {} /\ InitTun /\ NoWrite /\ InitProbe

NextProbe ==
    \/ P_Probe
    \/ P_LoopEnd
    \/ P_Fallback

SpecProbe == InitP /\ [][NextProbe]_vars

(***************************************************************************)
(* Specification of a live handle whose owner has let events pile up: the  *)
(* interface went up and down `k` times since the monitor started and      *)
(* nothing was received from Events().  The histories start here.  Name is *)
(* not called and no teardown step fails unless it must: tun.name and the  *)
(* errors of Close only matter to what Close returns.  From here on the    *)
(* interface is reported up, with a changed MTU.                           *)
(***************************************************************************)
Flaps(k) == [i \in 1..k |-> IF i % 2 = 1 THEN "Up" ELSE "Down"]

QueueSample == {0, EventsCap - 1, EventsCap}

InitQueued ==
    /\ phase = "live"
    /\ fd = "open"
    /\ name \in Names
    /\ origName = AssignedName
    /\ nameCall = <<>>
    /\ routeSocket = "open"
    /\ \E k \in QueueSample :
           /\ events = Flaps(k)
           /\ statusUp = (k % 2 = 1)
           /\ ifUp = (k % 2 = 1)
           /\ gUp = (k % 2 = 1)
    /\ eventsClosed = FALSE
    /\ errSlot = <<>>
    /\ panicked = <<>>
    /\ mpc = "read"
    /\ merr = "none"
    /\ statusMTU = 0
    /\ ifMTU = 0
    /\ gMTU = 0
    /\ seenUp = <<>>
    /\ want = <<>>
    /\ emitted = <<>>
    /\ createRet = "ok"
    /\ createFail = "none"
    /\ nClose = 0
    /\ cpc = [c \in Closers |-> "idle"]
    /\ closeIn = [c \in Closers |-> NoClose]
    /\ closeTrace = [c \in Closers |-> <<>>]
    /\ closeRet = [c \in Closers |-> "none"]
    /\ cancelled = FALSE
    /\ rpc = "idle"
    /\ readRet = "none"
    /\ didRead = FALSE
    /\ slotReturns = 0
    /\ atClose = FALSE

InitMon == InitBind /\ keyMap = {} /\ InitQueued /\ NoWrite /\ NoProbe

NextMon ==
    \/ \E errno \in Errnos : M_ReadErr(errno)
    \/ \E msg \in Msgs : \E iface \in LookupsUp(msg) : M_ReadMsg(msg, iface)
    \/ M_UpDown
    \/ M_MTU
    \/ M_Fail
    \/ M_Return
    \/ Consume
    \/ Close(FALSE)
    \/ QuietCloserStep

SpecMon == InitMon /\ [][NextMon]_vars

\* the scheduler runs the monitor whenever it is runnable: at a send, at the
\* error hand-over, or in unix.Read on a descriptor that Close has closed
\* (which fails at once).  A read of the open socket waits for the kernel and
\* a send into a full queue waits for a receiver: neither is promised.
RunnableMonitor ==
    \/ M_UpDown
    \/ M_MTU
    \/ M_Fail
    \/ M_Return
    \/ (routeSocket \in {"closed", "unset"} /\ M_ReadErr("EBADF"))

FairSpecMon == SpecMon /\ WF_vars(RunnableMonitor)
                       /\ WF_vars(QuietCloserStep)

(***************************************************************************)
(* Properties of the bind coordinator.                                     *)
(***************************************************************************)

\* C1: a BindUpdate that read the device as up and returns without error has
\* called ClearSrc exactly once on every peer with a non-nil endpoint (and on
\* no other); a BindUpdate that did not find the device up has cleared no
\* peer and created no bind, and leaves the bind closed and nil.
C1_BindUpdateClears ==
    \A t \in Threads :
        pc[t] = "bu_unlock_peers" =>
            /\ (upRead = "up" /\ ~err[t]) =>
                  \A p \in Peers :
                      cleared[p] = IF p \in keyMap /\ endpoint[p] THEN 1 ELSE 0
            /\ (upRead # "up") =>
                  /\ \A p \in Peers : cleared[p] = 0
                  /\ ~created
                  /\ bind.nil

C1_Witness ==
    \E t \in Threads :
        /\ pc[t] = "bu_unlock_peers"
        /\ upRead = "up"
        /\ ~err[t]
        /\ Cardinality(keyMap) >= 2
        /\ \E p \in keyMap : endpoint[p] /\ cleared[p] = 1
        /\ \E p \in keyMap : ~endpoint[p]

HoldsNoLock(t) ==
    /\ netMutex # t
    /\ peersMutex # t
    /\ \A p \in Peers : peerMutex[p] # t

LockOrder ==
    \A t \in Threads :
        /\ peersMutex = t => netMutex = t
        /\ \A p \in Peers : peerMutex[p] = t => (peersMutex = t /\ netMutex = t)

Blocked(t) ==
    \/ pc[t] \in {"bu_lock_net", "sm_lock_net", "bc_lock_net"} /\ netMutex # 0
    \/ pc[t] \in {"bu_lock_peers", "sm_lock_peers"} /\ peersMutex # 0
    \/ /\ pc[t] = "bu_peers"
       /\ \E p \in keyMap : peerMutex[p] # t
       /\ \A p \in keyMap : peerMutex[p] # 0

NoDeadlock ==
    (\E t \in Threads : pc[t] # "idle") =>
        \E t \in Threads : pc[t] # "idle" /\ ~Blocked(t)

\* C2: under every interleaving of BindUpdate, BindSetMark and BindClose no
\* thread holds the peer-collection lock or a peer lock without the
\* network-state lock, a thread that is not inside a call holds no lock,
\* some running call can always take a step, and every started call returns.
C2_LockDiscipline ==
    /\ [](LockOrder /\ NoDeadlock
          /\ \A t \in Threads : pc[t] = "idle" => HoldsNoLock(t))
    /\ \A t \in Threads : (pc[t] # "idle") ~> (pc[t] = "idle")

C2_Witness ==
    \E t, u \in Threads :
        /\ t # u
        /\ pc[t] = "bu_unlock_peers"
        /\ err[t]
        /\ netMutex = t /\ peersMutex = t
        /\ pc[u] = "sm_lock_net"

\* C3 (as claimed): a BindUpdate that returns an error never leaves a
\* non-nil bind installed.
C3_ErrorLeavesNoBind ==
    \A t \in Threads : (pc[t] = "bu_unlock_net" /\ err[t]) => bind.nil

\* C4: a BindSetMark whose mark is that of the previous BindSetMark calls
\* Bind.SetMark zero times and leaves fwmark, bind and port unchanged (the
\* previous call made at most one Bind.SetMark call).
C4_SetMarkIdempotent ==
    [][\A t \in Threads :
          (pc[t] = "sm_body" /\ pc'[t] = "sm_unlock_peers"
              /\ prevMark = arg[t]) =>
             /\ markCalls <= 1
             /\ markCalls' = 0
             /\ fwmark' = fwmark
             /\ bind' = bind
             /\ port' = port]_vars

C4_Witness ==
    \E t \in Threads :
        /\ pc[t] = "sm_unlock_peers"
        /\ repeat
        /\ isUp
        /\ ~bind.nil
        /\ fwmark # 0

\* no BindUpdate, BindSetMark or BindClose is in progress
Quiet == \A t \in Threads : pc[t] = "idle"

\* C16 (as claimed): whenever a bind is installed and no bind operation is
\* in progress, no peer's endpoint holds a source address that was cached on
\* an earlier bind, closed since: every BindUpdate that installs a bind,
\* also one that returns an error, has reset every peer's cached source.
C16_NoStaleSource ==
    (Quiet /\ ~bind.nil) => \A p \in Peers : src[p] # "stale"

\* C17 (as claimed): a receive routine is only started by the BindUpdate
\* that just installed device.net.bind, never against nil and never twice
\* for one IP version; whenever a bind is installed and no bind operation is
\* in progress, its IPv4 and its IPv6 routine have both been started.
C17_RoutinesStarted ==
    /\ routines.v4 <= 1 /\ routines.v6 <= 1
    /\ bind.nil => routines = NoRoutines
    /\ \A t \in Threads : pc[t] = "bu_peers" => (~bind.nil /\ created)
    /\ (Quiet /\ ~bind.nil) => routines = [v4 |-> 1, v6 |-> 1]

\* C18: under every interleaving of BindUpdate, BindSetMark and BindClose,
\* with any of Bind.Close, CreateBind and SetMark failing, the created binds
\* that Close was not called on are device.net.bind alone (none when it is
\* nil), and Close is only ever called on the installed bind, which is
\* dropped in the same step: no bind leaks, none is closed a second time.
C18_OneUnclosedBind ==
    /\ [](unclosed = IF bind.nil THEN 0 ELSE 1)
    /\ [][unclosed' < unclosed =>
             (~bind.nil /\ bind'.nil /\ unclosed' = unclosed - 1)]_vars

C18_Witness ==
    \E t, u \in Threads :
        /\ pc[t] = "bu_unlock_net"
        /\ err[t]
        /\ ~bind.nil
        /\ unclosed = 1
        /\ pc[u] = "bc_lock_net"

\* C19 (as claimed): whenever a bind is installed and no bind operation is
\* in progress, the mark last applied to it (0 on a fresh bind) is the
\* stored device.net.fwmark, also after a BindSetMark that returned an error
\* or ran while the device was down.
C19_MarkMatches ==
    (Quiet /\ ~bind.nil) => bind.mark = fwmark

(***************************************************************************)
(* Properties of the TUN handle.                                           *)
(***************************************************************************)

\* C5 (as claimed): no execution closes the event channel when it is already
\* closed, whatever the interleaving of the monitor's termination and of the
\* Close calls on the handle.
C5_EventsClosedOnce ==
    \A i \in 1..Len(panicked) : panicked[i] # "close of closed channel"

Precedes(a, b, seq) ==
    \E i, j \in 1..Len(seq) : i < j /\ seq[i] = a /\ seq[j] = b

Attempted(a, seq) == \E i \in 1..Len(seq) : seq[i] = a

\* C6 (as claimed): a Close of a handle whose name differs from its original
\* name issues the rename before it closes the descriptor; when the rename
\* fails the descriptor is closed all the same and, when the cancellation
\* and the descriptor close succeed, Close returns the rename error.
C6_RenameErrorSurfaced ==
    \A c \in Closers :
        (closeRet[c] # "none" /\ closeIn[c].differs) =>
            /\ Precedes("rename", "fdClose", closeTrace[c])
            /\ closeIn[c].renameErr =>
                  /\ fd = "closed"
                  /\ (~closeIn[c].cancelErr /\ ~closeIn[c].fdErr) =>
                        closeRet[c] = "rename"

\* the error the documented priority order selects
PriorityError(in) ==
    IF in.cancelErr THEN "cancel"
    ELSE IF in.fdErr THEN "fd"
    ELSE IF in.renameErr THEN "rename"
    ELSE "nil"

\* C7 (as claimed): Close attempts every teardown step and returns the first
\* error in the order cancellation, descriptor close, rename-restore, or no
\* error when none of the three failed, whatever the other steps did.
C7_ClosePriority ==
    \A c \in Closers :
        closeRet[c] # "none" =>
            /\ closeIn[c].differs => Attempted("rename", closeTrace[c])
            /\ Attempted("fdClose", closeTrace[c])
            /\ Attempted("cancel", closeTrace[c])
            /\ Attempted("shutdown", closeTrace[c])
                  = Attempted("routeClose", closeTrace[c])
            /\ closeRet[c] = PriorityError(closeIn[c])

\* C8 (as claimed): no error return of CreateTUN leaves the device
\* descriptor open.
C8_FailureClosesDescriptor == createRet = "err" => fd # "open"

IsUpDown(e) == e \in {"Up", "Down"}
IsMTU(e) == e = "MTU"

\* one Up or Down per flag that differs from the one before it, the flag
\* before the first one being `prev`
RECURSIVE EdgeEvents(_, _)
EdgeEvents(ups, prev) ==
    IF ups = <<>> THEN <<>>
    ELSE (IF Head(ups) = prev THEN <<>>
          ELSE <<IF Head(ups) THEN "Up" ELSE "Down">>)
             \o EdgeEvents(Tail(ups), Head(ups))

IsPrefix(a, b) == Len(a) <= Len(b) /\ SubSeq(b, 1, Len(a)) = a

\* the monitor is not in the middle of a notification
Settled == mpc \in {"read", "fail", "return", "done"}

\* C9 (as claimed): for flags observed as up, down, up (each possibly
\* repeated) the monitor has emitted exactly Down, Up; and it emits an Up or
\* Down only for a flag that differs from the previously observed one.
C9_DownThenUp ==
    Settled =>
        /\ seenUp = <<TRUE, FALSE, TRUE>> =>
              SelectSeq(emitted, IsUpDown) = <<"Down", "Up">>
        /\ Len(SelectSeq(emitted, IsUpDown)) <= Len(seenUp)

\* C9 (amended): the remembered flag starts as down, so for flags observed as
\* up, down, up (each possibly repeated) the monitor has emitted exactly
\* Up, Down, Up; in general it has emitted one Up or Down for each observed
\* flag that differs from the one observed before it (down before the
\* first), in order, and none for a repeated flag.
C9_EdgeEvents ==
    (Settled \/ mpc = "mtu") =>
        /\ SelectSeq(emitted, IsUpDown) = EdgeEvents(seenUp, FALSE)
        /\ seenUp = <<TRUE, FALSE, TRUE>> =>
              SelectSeq(emitted, IsUpDown) = <<"Up", "Down", "Up">>

C9_Witness ==
    /\ mpc = "read"
    /\ seenUp = <<TRUE, FALSE, TRUE>>
    /\ SelectSeq(emitted, IsUpDown) = <<"Up", "Down", "Up">>

\* C10: the monitor emits one MTUChanged event for each matching
\* notification whose MTU differs from the last observed MTU (0 at first), at
\* that notification's place in the event sequence, and none for an equal
\* MTU; a notification that is too short, of another kind or for another
\* interface emits nothing and leaves the remembered flag and MTU as they are.
C10_MTUEvents ==
    /\ IsPrefix(emitted, want)
    /\ Settled =>
          /\ emitted = want
          /\ statusUp = gUp
          /\ statusMTU = gMTU

C10_Witness ==
    /\ mpc = "read"
    /\ gMTU = 0
    /\ statusUp
    /\ emitted = <<"Up", "MTU", "MTU">>

\* C11 (as claimed): a routing-socket read error other than EINTR, or a
\* failed interface lookup, makes the monitor push exactly one error to the
\* error channel, which has room for it, emit no further event, close the
\* event channel and terminate; an EINTR read error pushes no error, emits no
\* event and leaves the monitor reading.
C11_FatalErrorEndsMonitor ==
    [][/\ mpc = "fail" => Len(errSlot) < ErrorsCap
       /\ (mpc = "fail" /\ mpc' # mpc) =>
             /\ errSlot' = Append(errSlot, merr)
             /\ mpc' = "return"
       /\ (mpc = "return" /\ closeHist' = closeHist
              /\ <<mpc, panicked>>' # <<mpc, panicked>>) =>
             /\ eventsClosed'
             /\ panicked' = <<>>
             /\ mpc' = "done"
       /\ mpc \in {"fail", "return", "done"} => emitted' = emitted
       /\ mpc \in {"return", "done"} =>
             (mpc' \in {"return", "done"} /\ Len(errSlot') <= Len(errSlot))
       /\ (mpc = "read" /\ mpc' = "read") =>
             (errSlot' = errSlot /\ emitted' = emitted)]_vars

SomeCloseDone == \E c \in Closers : cpc[c] = "done"

\* C12 (as claimed): a Read that was blocked on the device (inside
\* tun.fd.Read or ReadyRead) when Close was called eventually returns, and
\* what it returns is the device-closed error or the error of the device
\* read (or what the device answered before any Close completed); no Read
\* returns a payload once a Close has completed; a Read whose ReadyRead
\* reports the descriptor gone returns the device-closed error at once
\* instead of reading again.
C12_ReadReturnsAfterClose ==
    /\ [][/\ (atClose /\ rpc # "idle" /\ rpc' = "idle") =>
                \/ readRet' \in {"closed", "err"}
                \/ readRet' \in {"payload", "short"} /\ ~SomeCloseDone
          /\ (SomeCloseDone /\ rpc # "idle" /\ rpc' = "idle") =>
                readRet' # "payload"
          /\ (rpc = "ready" /\ cancelled /\ rpc' # rpc) =>
                (rpc' = "idle" /\ readRet' = "closed")]_vars
    /\ atClose ~> (rpc = "idle")

\* C13 (as claimed): a Read that finds an error in the fatal-error slot when
\* it starts returns that error (with length 0) without calling tun.fd.Read
\* and takes the error out of the slot; at most one Read call ever returns
\* the monitor's error; a Read that finds the slot empty is not held up by
\* it and calls tun.fd.Read.
C13_SlotDrainedFirst ==
    [][/\ (rpc = "start" /\ errSlot # <<>> /\ rpc' # rpc) =>
             /\ rpc' = "idle"
             /\ readRet' = "slot"
             /\ ~didRead'
             /\ errSlot' = Tail(errSlot)
       /\ (rpc = "start" /\ errSlot = <<>> /\ Alive) =>
             /\ ENABLED ReaderStep
             /\ rpc' # rpc => rpc' \in {"fdread", "fdfail"}
       /\ (rpc \in {"fdread", "fdfail"} /\ Alive) =>
             /\ ENABLED ReaderStep
             /\ rpc' # rpc => didRead'
       /\ slotReturns' <= 1]_vars

(***************************************************************************)
(* Properties of Write.                                                    *)
(***************************************************************************)

\* C14: for every payload and header offset >= 4, Write zeroes the three
\* bytes at offset-4..offset-2, sets the byte at offset-1 to the IPv6 tag
\* when the payload's first byte lies in 0x60..0x6f and to the IPv4 tag
\* otherwise, leaves every other byte of the buffer as it was, and hands the
\* device the buffer from offset-4 to its end.
C14_WriteFraming ==
    wpc = "done" =>
        /\ Len(wbuff) = Len(winput)
        /\ \A i \in 1..Len(wbuff) :
              wbuff[i] =
                 IF i \in (woffset - 3)..(woffset - 1) THEN 0
                 ELSE IF i = woffset
                      THEN (IF winput[woffset + 1] \in 96..111
                            THEN AF_INET6 ELSE AF_INET)
                 ELSE winput[i]
        /\ Len(written) = Len(wbuff) - (woffset - HeaderLen)
        /\ \A j \in 1..Len(written) :
              written[j] = wbuff[woffset - HeaderLen + j]

C14_Witness ==
    /\ wpc = "done"
    /\ woffset > HeaderLen
    /\ winput[woffset] = 255
    /\ winput[woffset + 1] = 96
    /\ wbuff[woffset] = AF_INET6
    /\ Len(written) = HeaderLen + MaxPayload

(***************************************************************************)
(* Properties of the device probing.                                       *)
(***************************************************************************)
\* the numbered candidates that open
Openable == {i \in free : i \in 0..(NumProbes - 1)}

Lowest(S) == CHOOSE i \in S : \A j \in S : i <= j

\* how far the probing has come: it grows with every step and is bounded
ProbeProgress ==
    Len(tries) + (IF ppc = "loop" THEN 0 ELSE IF ppc = "after" THEN 1 ELSE 2)

\* C15: the numbered paths are tried in increasing order from 0, at most 99
\* of them and none after the first that opens; the generic node is opened
\* only when none of the 99 opened; when it fails too, creation ends in an
\* error with no descriptor open; the probing cannot go on forever (every
\* step is possible until the end and brings it closer), and its outcome is
\* the one the availability pattern determines.
C15_ProbeOrder ==
    /\ [][ProbeProgress' > ProbeProgress]_vars
    /\ [](/\ ProbeProgress <= NumProbes + 2
          /\ ppc \in {"loop", "after"} => ENABLED NextProbe
          /\ Len(tries) <= NumProbes
          /\ \A k \in 1..Len(tries) :
                /\ tries[k] = k - 1
                /\ k < Len(tries) => tries[k] \notin free
          /\ tunfile = GenericFile =>
                (Openable = {} /\ Len(tries) = NumProbes)
          /\ ppc \in {"opened", "error"} =>
                IF Openable # {}
                THEN /\ ppc = "opened"
                     /\ tunfile = Numbered(Lowest(Openable))
                     /\ Len(tries) = Lowest(Openable) + 1
                ELSE /\ Len(tries) = NumProbes
                     /\ IF generic
                        THEN ppc = "opened" /\ tunfile = GenericFile
                        ELSE ppc = "error" /\ tunfile = NilFile)

C15_Witness ==
    /\ ppc = "error"
    /\ NumProbes \in free
    /\ Len(tries) = NumProbes
    /\ tunfile = NilFile

\* C20: after Close on a handle whose monitor is running, the monitor
\* eventually terminates with the event channel closed, whatever the event
\* queue held at the time of Close (a crash of the process by a panic ends
\* the monitor too).
C20_MonitorEnds ==
    (nClose > 0) ~> ((mpc = "done" /\ eventsClosed) \/ panicked # <<>>)

====
